---- MODULE Spec2Model ----
(***************************************************************************)
(* Translation service (src/translation-service/main.py): the request     *)
(* pipeline of TranslationService.translate (validation, passthrough,     *)
(* cache lookup, inference, cache population), the Redis-backed cache     *)
(* helpers, service start-up and the two POST endpoints.                  *)
(*                                                                         *)
(* Strings that take part in the cache key are sequences of one-character *)
(* strings, so that concatenation is modelled as concatenation.  Floats   *)
(* are integer hundredths (0.75 is 75).  The neural backend is external:  *)
(* its output is a symbolic term over its inputs, and whether a call      *)
(* raises is an input of the step.  The handlers are coroutines that      *)
(* never suspend (the Redis client is synchronous) and the deployment     *)
(* runs one worker, so a translate call is one step; the batch handler is *)
(* a loop whose iterations are steps that no other handler interleaves    *)
(* with, while the external store may expire entries in between.          *)
(***************************************************************************)
EXTENDS Integers, Sequences, FiniteSets, TLC

\* ------------------------------------------------------------------ bounds
MaxBatch == 2
MaxCap == 2

\* ------------------------------------------------------- program constants
MODEL_NAME == "facebook/mbart-large-50-many-to-many-mmt"

LANG_MAPPING ==
    (<<"e","n">> :> "en_XX") @@ (<<"e","s">> :> "es_XX") @@
    (<<"f","r">> :> "fr_XX") @@ (<<"d","e">> :> "de_DE") @@
    (<<"z","h">> :> "zh_CN") @@ (<<"j","a">> :> "ja_XX") @@
    (<<"a","r">> :> "ar_AR") @@ (<<"r","u">> :> "ru_RU") @@
    (<<"p","t">> :> "pt_XX") @@ (<<"i","t">> :> "it_IT") @@
    (<<"k","o">> :> "ko_KR") @@ (<<"h","i">> :> "hi_IN") @@
    (<<"t","r">> :> "tr_TR") @@ (<<"v","i">> :> "vi_VN") @@
    (<<"t","h">> :> "th_TH")

\* default time-to-live of _save_to_cache, in seconds
DefaultTtl == 2592000

\* src_lang of a freshly loaded MBart50 tokenizer
DefaultSrcLang == "en_XX"

\* ------------------------------------------------------------ input sets
Texts == { <<"o","k">>, <<"n","o">> }
Domains == { <<"h","d">> }
LangPairs ==
    { << <<"e","s">>, <<"e","n">> >>,     \* supported, distinct
      << <<"e","s">>, <<"e","s">> >>,     \* supported, same
      << <<"x","x">>, <<"e","n">> >>,     \* source absent from the catalog
      << <<"e","s">>, <<"x","x">> >>,     \* target absent from the catalog
      << <<"x","x">>, <<"x","x">> >> }    \* same and absent
QualityPreferences == { "fast", "accurate" }
Messages == { "CUDA out of memory", "index out of range" }

TranslationRequest ==
    { [text |-> t, source_language |-> p[1], target_language |-> p[2],
       domain |-> d, quality_preference |-> q, use_cache |-> c] :
         t \in Texts, p \in LangPairs, d \in Domains,
         q \in QualityPreferences, c \in BOOLEAN }

\* the requests batches are built from: each text on the inference path,
\* one request with a language absent from the catalog, one passthrough
BatchItems ==
    { r \in TranslationRequest :
        /\ r.quality_preference = "fast"
        /\ r.use_cache
        /\ \/ /\ r.source_language = <<"e","s">>
              /\ r.target_language = <<"e","n">>
           \/ /\ r.source_language = <<"x","x">>
              /\ r.target_language = <<"e","n">>
              /\ r.text = <<"o","k">>
           \/ /\ r.source_language = <<"e","s">>
              /\ r.target_language = <<"e","s">>
              /\ r.text = <<"n","o">> }

\* what the environment decides for one translate call: whether the store's
\* get / setex raises, and whether the backend raises (and with what message)
Envs ==
    [get_fails : BOOLEAN, setex_fails : BOOLEAN,
     backend : {"ok"} \cup Messages]

NoFault == [get_fails |-> FALSE, setex_fails |-> FALSE, backend |-> "ok"]

\* the faults that can reach a call for this request: a request that is
\* rejected or passed through calls neither the store nor the backend, and
\* one with use_cache = false calls only the backend
Faults(request) ==
    IF \/ request.source_language \notin DOMAIN LANG_MAPPING
       \/ request.target_language \notin DOMAIN LANG_MAPPING
       \/ request.source_language = request.target_language
    THEN { NoFault }
    ELSE IF request.use_cache THEN Envs
    ELSE { e \in Envs : ~e.get_fails /\ ~e.setex_fails }

Min(a, b) == IF a < b THEN a ELSE b

\* ------------------------------------------------------------- cache key
\* hashlib.sha256(...).hexdigest(): collision-free digest of the content
sha256(content) == <<"sha256">> \o content

\* the key with the quality preference among its fields
_get_cache_key_with_quality(req) ==
    LET content == req.text \o <<":">> \o req.source_language \o <<":">>
                     \o req.target_language \o <<":">> \o req.domain
                     \o <<":", req.quality_preference>>
    IN  <<"trans:">> \o sha256(content)

_get_cache_key(req) ==
    LET content == req.text \o <<":">> \o req.source_language \o <<":">>
                     \o req.target_language \o <<":">> \o req.domain
    IN  <<"trans:">> \o sha256(content)

Keys == { _get_cache_key(r) : r \in TranslationRequest }

\* ---------------------------------------------------- response and dicts
TranslationResponse(text, src, tgt, score, method, version, cached) ==
    [translated_text |-> text,
     source_language |-> src,
     target_language |-> tgt,
     quality_score |-> score,
     translation_method |-> method,
     model_version |-> version,
     cached |-> cached]

\* field order of TranslationResponse, the key order of model_dump()
ResponseFields ==
    <<"translated_text", "source_language", "target_language",
      "quality_score", "translation_method", "model_version", "cached">>

\* response.model_dump(): the dict of the response, as ordered items
model_dump(response) ==
    [i \in 1..Len(ResponseFields) |->
        <<ResponseFields[i], response[ResponseFields[i]]>>]

\* the assignment left out: the dict as it was
dict_set_dropped(items, name, value) == items

\* cache_data['cached'] = value on a dict given as ordered items
dict_set(items, name, value) ==
    IF \E i \in DOMAIN items : items[i][1] = name
    THEN [i \in DOMAIN items |->
            IF items[i][1] = name THEN <<name, value>> ELSE items[i]]
    ELSE Append(items, <<name, value>>)

\* str(data): the text of a dict literal, item after item
dict_str(items) == items

\* ast.literal_eval(text): the dict the literal denotes
literal_eval(text) ==
    [n \in { text[i][1] : i \in DOMAIN text } |->
        LET last_i == CHOOSE i \in DOMAIN text :
                        /\ text[i][1] = n
                        /\ \A j \in DOMAIN text : text[j][1] = n => j <= i
        IN  text[last_i][2]]

None == <<>>
Truthy(v) == DOMAIN v # {}

\* ---------------------------------------------------------------- outcomes
Returned(response) ==
    [kind |-> "ok", status |-> 200, detail |-> <<>>, response |-> response]

HTTPException(status, prefix, payload) ==
    [kind |-> "HTTPException", status |-> status,
     detail |-> <<prefix, payload>>, response |-> None]

\* an exception no handler of the service catches: the framework answers 500
Uncaught(name, message) ==
    [kind |-> name, status |-> 500, detail |-> <<message>>,
     response |-> None]

\* TranslationResponse(**kwargs, cached=value)
TranslationResponseKw(kwargs, cached) ==
    IF "cached" \in DOMAIN kwargs
    THEN Uncaught("TypeError",
                  "got multiple values for keyword argument 'cached'")
    ELSE Returned([n \in DOMAIN kwargs \cup {"cached"} |->
                     IF n = "cached" THEN cached ELSE kwargs[n]])

\* ------------------------------------------------------------------ state
VARIABLES
    started,            \* initialize() has run
    model,              \* service.model is not None
    tokenizer_src_lang, \* service.tokenizer.src_lang ("" while not loaded)
    adapters_loaded,    \* service.adapters_loaded
    redis_client,       \* service.redis_client is not None
    store,              \* the key-value store: key -> [value, ttl]
    last,               \* the operation in progress or last completed
    prev                \* what the operation before `last` was, when it
                        \* was a translate of the same request

vars == <<started, model, tokenizer_src_lang, adapters_loaded, redis_client,
          store, last, prev>>

Absent == [value |-> None, ttl |-> 0]

\* the fields of the service a translate call reads
Self ==
    [redis_client |-> redis_client, store |-> store,
     adapters_loaded |-> adapters_loaded, src_lang |-> tokenizer_src_lang]

\* ------------------------------------------------------------ cache layer
\* A helper's result carries what it did: `reads` / `writes` count the
\* store calls it made, `raised` says the store call raised, and `escapes`
\* names the exception that leaves the helper ("" when it returns).

\* the helper without its try / except
_get_from_cache_unguarded(self, cache_key, env) ==
    IF ~self.redis_client
    THEN [value |-> None, reads |-> 0, raised |-> FALSE, escapes |-> ""]
    ELSE IF env.get_fails
    THEN [value |-> None, reads |-> 1, raised |-> TRUE,
          escapes |-> "ConnectionError"]
    ELSE LET cached == self.store[cache_key].value
         IN  [value |-> IF cached # None THEN literal_eval(cached) ELSE None,
              reads |-> 1, raised |-> FALSE, escapes |-> ""]

_get_from_cache(self, cache_key, env) ==
    IF ~self.redis_client
    THEN [value |-> None, reads |-> 0, raised |-> FALSE, escapes |-> ""]
    ELSE IF env.get_fails
    THEN [value |-> None, reads |-> 1, raised |-> TRUE, escapes |-> ""]
    ELSE LET cached == self.store[cache_key].value
         IN  IF cached # None
             THEN [value |-> literal_eval(cached), reads |-> 1,
                   raised |-> FALSE, escapes |-> ""]
             ELSE [value |-> None, reads |-> 1, raised |-> FALSE,
                   escapes |-> ""]

_save_to_cache(self, cache_key, data, ttl, env) ==
    IF ~self.redis_client
    THEN [store |-> self.store, writes |-> 0, raised |-> FALSE,
          escapes |-> ""]
    ELSE IF env.setex_fails
    THEN [store |-> self.store, writes |-> 1, raised |-> TRUE,
          escapes |-> ""]
    ELSE [store |-> [self.store EXCEPT
                       ![cache_key] = [value |-> dict_str(data),
                                       ttl |-> ttl]],
          writes |-> 1, raised |-> FALSE, escapes |-> ""]

\* no call of the helper
NoLookup == [value |-> None, reads |-> 0, raised |-> FALSE, escapes |-> ""]
NoSave(self) ==
    [store |-> self.store, writes |-> 0, raised |-> FALSE, escapes |-> ""]

\* ---------------------------------------------------------------- backend
\* the table read without a default: an unknown preference leaves the
\* backend's own default breadth
num_beams_for_no_default(quality_preference) ==
    CASE quality_preference = "fast" -> 2
      [] quality_preference = "balanced" -> 4
      [] quality_preference = "accurate" -> 8
      [] OTHER -> 1

num_beams_for(quality_preference) ==
    CASE quality_preference = "fast" -> 2
      [] quality_preference = "balanced" -> 4
      [] quality_preference = "accurate" -> 8
      [] OTHER -> 4

\* tokenizer + model.generate + batch_decode: the translation, as a term
generate(text, src_lang, tgt_lang, num_beams) ==
    <<src_lang, tgt_lang, ToString(num_beams)>> \o text

\* -------------------------------------------------------------- translate
\* The run of one translate call: its outcome, the store and the tokenizer
\* setting it leaves, and what it did on the way (`hit`: the lookup returned
\* a value; `calls`: backend calls; `backend_error`: the message the backend
\* raised with, "" when it did not raise).
Run(outcome, path, src_lang, lookup, save, calls, backend_error, beams) ==
    [outcome |-> outcome, path |-> path, store |-> save.store,
     src_lang |-> src_lang,
     reads |-> lookup.reads, get_raised |-> lookup.raised,
     hit |-> Truthy(lookup.value),
     writes |-> save.writes, setex_raised |-> save.raised,
     calls |-> calls, backend_raised |-> backend_error # "",
     backend_error |-> backend_error,
     num_beams |-> beams]

\* raise HTTPException(400, ...) of the language validation
rejected(self, prefix, code) ==
    Run(HTTPException(400, prefix, code), "rejected", self.src_lang,
        NoLookup, NoSave(self), 0, "", 0)

\* the same-language shortcut placed after the cache lookup
passthrough_after_lookup(self, request, env) ==
    Run(Returned(TranslationResponse(
            request.text, request.source_language, request.target_language,
            100, "passthrough", MODEL_NAME, FALSE)),
        "passthrough", self.src_lang,
        IF request.use_cache
        THEN _get_from_cache(self, _get_cache_key(request), env)
        ELSE NoLookup,
        NoSave(self), 0, "", 0)

\* the shortcut with the tokenizer set for the source language first
passthrough_setting_src_lang(self, request, env) ==
    Run(Returned(TranslationResponse(
            request.text, request.source_language, request.target_language,
            100, "passthrough", MODEL_NAME, FALSE)),
        "passthrough", LANG_MAPPING[request.source_language], NoLookup,
        NoSave(self), 0, "", 0)

passthrough(self, request, env) ==
    Run(Returned(TranslationResponse(
            request.text, request.source_language, request.target_language,
            100, "passthrough", MODEL_NAME, FALSE)),
        "passthrough", self.src_lang, NoLookup, NoSave(self), 0, "", 0)

\* the except branch, with the placeholder of the batch handler cached
inference_failed_caching(self, request, lookup, src_lang, beams, message) ==
    Run(HTTPException(500, "Translation failed: ", message), "inference",
        src_lang, lookup,
        [store |-> [self.store EXCEPT
                      ![_get_cache_key(request)] =
                          [value |-> dict_str(model_dump(
                               TranslationResponse(
                                   request.text, request.source_language,
                                   request.target_language, 0, "error", "",
                                   FALSE))),
                           ttl |-> DefaultTtl]],
         writes |-> 1, raised |-> FALSE, escapes |-> ""],
        1, message, beams)

\* except Exception as e: raise HTTPException(500, ...)
inference_failed(self, request, lookup, src_lang, beams, message) ==
    Run(HTTPException(500, "Translation failed: ", message), "inference",
        src_lang, lookup, NoSave(self), 1, message, beams)

\* the try block
inference(self, request, env, lookup) ==
    LET src_lang == LANG_MAPPING[request.source_language]
        tgt_lang == LANG_MAPPING[request.target_language]
        num_beams == num_beams_for(request.quality_preference)
    IN  IF env.backend # "ok"
        THEN inference_failed(self, request, lookup, src_lang, num_beams,
                              env.backend)
        ELSE
        LET translated_text ==
                generate(request.text, src_lang, tgt_lang, num_beams)
            quality_score == IF self.adapters_loaded THEN 85 ELSE 75
            response ==
                TranslationResponse(
                    translated_text, request.source_language,
                    request.target_language, quality_score,
                    IF self.adapters_loaded THEN "adapter_fusion"
                                            ELSE "mbart",
                    MODEL_NAME, FALSE)
            save ==
                IF request.use_cache
                THEN _save_to_cache(
                         self, _get_cache_key(request),
                         dict_set(model_dump(response), "cached", TRUE),
                         DefaultTtl, env)
                ELSE NoSave(self)
        IN  IF save.escapes # ""
            THEN Run(HTTPException(500, "Translation failed: ",
                                   save.escapes),
                     "inference", src_lang, lookup, save, 1, "",
                     num_beams)
            ELSE Run(Returned(response), "inference", src_lang, lookup,
                     save, 1, "", num_beams)

\* the hit branch without its return
cache_hit_falls_through(self, request, env, lookup) ==
    inference(self, request, env, lookup)

\* return TranslationResponse(**cached_result, cached=True)
cache_hit(self, request, env, lookup) ==
    Run(TranslationResponseKw(lookup.value, TRUE), "cache-hit",
        self.src_lang, lookup, NoSave(self), 0, "", 0)

\* translate without the cache check: every request goes to the try block
lookup_then_translate_unchecked(self, request, env) ==
    inference(self, request, env, NoLookup)

\* the cache check made whatever the request's use_cache says
lookup_then_translate_always(self, request, env) ==
    LET lookup == _get_from_cache(self, _get_cache_key(request), env)
    IN  IF Truthy(lookup.value)
        THEN cache_hit(self, request, env, lookup)
        ELSE inference(self, request, env, lookup)

\* the cache check, and what follows it
lookup_then_translate(self, request, env) ==
    LET lookup == IF request.use_cache
                  THEN _get_from_cache(self, _get_cache_key(request), env)
                  ELSE NoLookup
    IN  IF lookup.escapes # ""
        THEN Run(Uncaught(lookup.escapes, "store call failed"), "cache",
                 self.src_lang, lookup, NoSave(self), 0, "", 0)
        ELSE IF request.use_cache /\ Truthy(lookup.value)
        THEN cache_hit(self, request, env, lookup)
        ELSE inference(self, request, env, lookup)

\* translate with the target language validated after the cache check
translate_late_validation(self, request, env) ==
    IF request.source_language \notin DOMAIN LANG_MAPPING
    THEN rejected(self, "Unsupported source language: ",
                  request.source_language)
    ELSE IF request.source_language = request.target_language
    THEN passthrough(self, request, env)
    ELSE IF request.target_language \notin DOMAIN LANG_MAPPING
    THEN Run(HTTPException(400, "Unsupported target language: ",
                           request.target_language),
             "rejected", self.src_lang,
             IF request.use_cache
             THEN _get_from_cache(self, _get_cache_key(request), env)
             ELSE NoLookup,
             NoSave(self), 0, "", 0)
    ELSE lookup_then_translate(self, request, env)

translate(self, request, env) ==
    IF request.source_language \notin DOMAIN LANG_MAPPING
    THEN rejected(self, "Unsupported source language: ",
                  request.source_language)
    ELSE IF request.target_language \notin DOMAIN LANG_MAPPING
    THEN rejected(self, "Unsupported target language: ",
                  request.target_language)
    ELSE IF request.source_language = request.target_language
    THEN passthrough(self, request, env)
    ELSE lookup_then_translate(self, request, env)

\* the answer of both endpoints while service.model is None
NotReady(self) ==
    Run(HTTPException(503, "Service still initializing", <<>>),
        "not-ready", self.src_lang, NoLookup, NoSave(self), 0, "", 0)

\* ------------------------------------------------------------------- Init
Init ==
    /\ started = FALSE
    /\ model = FALSE
    /\ tokenizer_src_lang = ""
    /\ adapters_loaded = FALSE
    /\ redis_client = FALSE
    /\ store = [k \in Keys |-> Absent]
    /\ last = [op |-> "none"]
    /\ prev = [repeat |-> FALSE]

Idle == last.op = "batch" => last.pc = "done"

\* ---------------------------------------------------------------- start-up
\* the stub with the loading it announces: adapters found are loaded
_load_adapters_when_present(adapter_dir) == adapter_dir = "exists"

_load_adapters(adapter_dir) == FALSE

\* what a run of initialize leaves in `last`: what it met, and whether it
\* raised
Started(model_loads, adapter_dir, redis_pings, raised) ==
    [op |-> "initialize", model_loads |-> model_loads,
     adapter_dir |-> adapter_dir, redis_pings |-> redis_pings,
     raised |-> raised]

\* initialize without the try / except around the store connection
initialize_store_required(model_loads, adapter_dir, redis_pings) ==
    /\ ~started
    /\ Idle
    /\ started' = TRUE
    /\ IF ~model_loads
       THEN UNCHANGED <<model, tokenizer_src_lang, adapters_loaded,
                        redis_client>>
       ELSE /\ model' = TRUE
            /\ tokenizer_src_lang' = DefaultSrcLang
            /\ adapters_loaded' =
                 IF adapter_dir = "raises" THEN adapters_loaded
                 ELSE _load_adapters(adapter_dir)
            /\ redis_client' = TRUE
    /\ last' = Started(model_loads, adapter_dir, redis_pings,
                       ~model_loads \/ ~redis_pings)
    /\ prev' = [repeat |-> FALSE]
    /\ UNCHANGED store

initialize(model_loads, adapter_dir, redis_pings) ==
    /\ ~started
    /\ Idle
    /\ started' = TRUE
    /\ IF ~model_loads
       THEN UNCHANGED <<model, tokenizer_src_lang, adapters_loaded,
                        redis_client>>
       ELSE /\ model' = TRUE
            /\ tokenizer_src_lang' = DefaultSrcLang
            /\ adapters_loaded' =
                 IF adapter_dir = "raises" THEN adapters_loaded
                 ELSE _load_adapters(adapter_dir)
            /\ redis_client' = redis_pings
    /\ last' = Started(model_loads, adapter_dir, redis_pings, ~model_loads)
    /\ prev' = [repeat |-> FALSE]
    /\ UNCHANGED store

\* ------------------------------------------------------- POST /translate
\* what a finished call leaves in `last`: the request, the outcome, what the
\* call did, the entry its key had when it started and when it ended, the
\* keys whose entries it changed, the tokenizer setting it started with
Observed(request, run) ==
    [op |-> "translate", request |-> request, outcome |-> run.outcome,
     path |-> run.path, reads |-> run.reads, writes |-> run.writes,
     hit |-> run.hit,
     calls |-> run.calls, get_raised |-> run.get_raised,
     setex_raised |-> run.setex_raised,
     backend_raised |-> run.backend_raised,
     backend_error |-> run.backend_error, num_beams |-> run.num_beams,
     entry_before |-> store[_get_cache_key(request)],
     entry_after |-> run.store[_get_cache_key(request)],
     changed_keys |-> { k \in Keys : run.store[k] # store[k] },
     src_lang_before |-> tokenizer_src_lang,
     store_changed |-> run.store # store]

translate_text(request, env) ==
    /\ Idle
    /\ LET run == IF ~model THEN NotReady(Self)
                  ELSE translate(Self, request, env)
       IN  /\ store' = run.store
           /\ tokenizer_src_lang' = run.src_lang
           /\ last' = Observed(request, run)
           /\ prev' =
                IF last.op = "translate" /\ last.request = request
                THEN [repeat |-> TRUE,
                      ok |-> last.outcome.kind = "ok",
                      calls |-> last.calls,
                      cold |-> last.entry_before = Absent,
                      store_worked |-> /\ last.reads = 1
                                       /\ last.writes = 1
                                       /\ ~last.get_raised
                                       /\ ~last.setex_raised]
                ELSE [repeat |-> FALSE]
    /\ UNCHANGED <<started, model, adapters_loaded, redis_client>>

\* -------------------------------------------------- POST /translate/batch
\* requests[:n] without the truncation
slice_to_unbounded(requests, n) == requests

\* batch.requests[:batch.max_parallel]
slice_to(requests, n) == SubSeq(requests, 1, Min(n, Len(requests)))

\* the placeholder with an empty text
error_placeholder_blank(req) ==
    TranslationResponse(<<>>, req.source_language, req.target_language,
                        0, "error", "", FALSE)

\* the placeholder appended when an item's translate raises
error_placeholder(req) ==
    TranslationResponse(req.text, req.source_language, req.target_language,
                        0, "error", "", FALSE)

\* what an item's run did, kept per item
ItemRun(run) ==
    [kind |-> run.outcome.kind, status |-> run.outcome.status,
     hit |-> run.hit, calls |-> run.calls,
     backend_raised |-> run.backend_raised]

\* the loop body without its try / except: the exception leaves the handler
after_item_propagating(batch, req, run) ==
    IF run.outcome.kind = "ok"
    THEN [batch EXCEPT
            !.results = Append(@, run.outcome.response),
            !.runs = Append(@, ItemRun(run)),
            !.pc = IF Len(batch.results) + 1
                        = Len(slice_to(batch.requests, batch.max_parallel))
                   THEN "done" ELSE "loop"]
    ELSE [batch EXCEPT
            !.outcome = run.outcome,
            !.runs = Append(@, ItemRun(run)),
            !.pc = "done"]

\* the loop body: the batch record after req has been run
after_item(batch, req, run) ==
    [batch EXCEPT
       !.results = Append(@, IF run.outcome.kind = "ok"
                             THEN run.outcome.response
                             ELSE error_placeholder(req)),
       !.runs = Append(@, ItemRun(run)),
       !.pc = IF Len(batch.results) + 1
                   = Len(slice_to(batch.requests, batch.max_parallel))
              THEN "done" ELSE "loop"]

\* the handler up to its loop: the readiness guard and the truncation
translate_batch(requests, max_parallel) ==
    /\ Idle
    /\ last' =
         IF ~model
         THEN [op |-> "batch", pc |-> "done", ready |-> FALSE,
               requests |-> requests, max_parallel |-> max_parallel,
               outcome |-> NotReady(Self).outcome,
               results |-> <<>>, runs |-> <<>>]
         ELSE [op |-> "batch",
               pc |-> IF slice_to(requests, max_parallel) = <<>>
                      THEN "done" ELSE "loop",
               ready |-> TRUE,
               requests |-> requests, max_parallel |-> max_parallel,
               outcome |-> Returned(None),
               results |-> <<>>, runs |-> <<>>]
    /\ prev' = [repeat |-> FALSE]
    /\ UNCHANGED <<started, model, tokenizer_src_lang, adapters_loaded,
                   redis_client, store>>

\* one iteration of the loop; the handler returns after the last one
batch_item(env) ==
    /\ last.op = "batch"
    /\ last.pc = "loop"
    /\ LET req == slice_to(last.requests, last.max_parallel)
                    [Len(last.runs) + 1]
           run == translate(Self, req, env)
       IN  /\ env \in Faults(req)
           /\ store' = run.store
           /\ tokenizer_src_lang' = run.src_lang
           /\ last' = after_item(last, req, run)
    /\ UNCHANGED <<started, model, adapters_loaded, redis_client, prev>>

\* ------------------------------------------------------------ environment
\* an entry reaches its time-to-live
Expire(k) ==
    /\ store[k] # Absent
    /\ store' = [store EXCEPT ![k] = Absent]
    /\ UNCHANGED <<started, model, tokenizer_src_lang, adapters_loaded,
                   redis_client, last, prev>>

Next ==
    \/ \E m \in BOOLEAN, a \in {"exists", "absent", "raises"},
          r \in BOOLEAN : initialize(m, a, r)
    \/ \E request \in TranslationRequest :
          \E env \in Faults(request) : translate_text(request, env)
    \/ \E n \in 0..MaxBatch :
          \E requests \in [1..n -> BatchItems], max_parallel \in 1..MaxCap :
             translate_batch(requests, max_parallel)
    \/ \E env \in Envs : batch_item(env)
    \/ \E k \in Keys : Expire(k)

Spec == Init /\ [][Next]_vars

\* ================================================================ claims
Supported(code) == code \in DOMAIN LANG_MAPPING

\* `last` is a call of service.translate through POST /translate
TranslateCalled == last.op = "translate" /\ last.path # "not-ready"

\* the call in `last` touched neither the store nor the backend
NothingInvoked ==
    /\ last.reads = 0
    /\ last.writes = 0
    /\ last.calls = 0
    /\ ~last.store_changed

\* C1: with a working store and a cold cache, after a first translate of a
\* request with use_cache = true and supported, distinct languages has
\* succeeded, a second translate of the identical request returns a result
\* with cached = true and calls no backend: one backend call over the two.
C1_RepeatedRequestIsServedFromCache ==
    ( /\ TranslateCalled
      /\ prev.repeat
      /\ last.request.use_cache
      /\ Supported(last.request.source_language)
      /\ Supported(last.request.target_language)
      /\ last.request.source_language # last.request.target_language
      /\ prev.cold /\ prev.ok /\ prev.store_worked
      /\ last.entry_before # Absent
      /\ last.reads = 1 /\ ~last.get_raised )
    => /\ last.outcome.kind = "ok"
       /\ last.outcome.response.cached = TRUE
       /\ prev.calls = 1
       /\ last.calls = 0

\* the result of the passthrough path, with nothing invoked
PassthroughResult ==
    /\ last.outcome.kind = "ok"
    /\ last.outcome.response.translated_text = last.request.text
    /\ last.outcome.response.quality_score = 100
    /\ last.outcome.response.translation_method = "passthrough"
    /\ last.outcome.response.cached = FALSE
    /\ NothingInvoked

\* C2 as stated: for every input of translate, source_language =
\* target_language gives the passthrough result (the input text, quality
\* 1.0, method "passthrough", cached = false) with no cache get, no cache
\* put and no backend call.
C2_SameLanguageIsPassthrough ==
    ( /\ TranslateCalled
      /\ last.request.source_language = last.request.target_language )
    => PassthroughResult

\* C2, amended: for every input of translate whose source_language equals
\* its target_language and is in the language catalog, the result is the
\* passthrough result with no cache get, no cache put and no backend call;
\* when the common code is absent from the catalog the request is rejected
\* with status 400, also with nothing invoked.
C2_SupportedSameLanguageIsPassthrough ==
    ( /\ TranslateCalled
      /\ last.request.source_language = last.request.target_language )
    => IF Supported(last.request.source_language)
       THEN PassthroughResult
       ELSE /\ last.outcome.kind = "HTTPException"
            /\ last.outcome.status = 400
            /\ NothingInvoked

\* a same-language request with use_cache = true served while the store is
\* connected and holds an entry
C2_Witness ==
    /\ TranslateCalled
    /\ last.request.source_language = last.request.target_language
    /\ Supported(last.request.source_language)
    /\ last.request.use_cache
    /\ redis_client
    /\ \E k \in Keys : store[k] # Absent
    /\ last.outcome.kind = "ok"

\* C3: a translate request whose source_language or target_language is
\* absent from the catalog fails with status 400 and a detail carrying the
\* offending code, with no cache read, no cache write and no backend call,
\* whatever the other fields and the cache state.
C3_UnsupportedLanguageFailsFast ==
    ( /\ TranslateCalled
      /\ \/ ~Supported(last.request.source_language)
         \/ ~Supported(last.request.target_language) )
    => /\ last.outcome.kind = "HTTPException"
       /\ last.outcome.status = 400
       /\ last.outcome.detail =
            IF ~Supported(last.request.source_language)
            THEN <<"Unsupported source language: ",
                   last.request.source_language>>
            ELSE <<"Unsupported target language: ",
                   last.request.target_language>>
       /\ NothingInvoked

\* a request with a supported source and an unsupported target, use_cache =
\* true, rejected while the store is connected and holds an entry
C3_Witness ==
    /\ TranslateCalled
    /\ Supported(last.request.source_language)
    /\ ~Supported(last.request.target_language)
    /\ last.request.use_cache
    /\ redis_client
    /\ \E k \in Keys : store[k] # Absent
    /\ last.outcome.status = 400

\* --------------------------------------------------------------- batches
\* result is a translation of req itself: req's codes, and either req's text
\* passed through or the backend's translation of req's text
IsOwnTranslation(req, result) ==
    /\ result.translation_method # "error"
    /\ result.source_language = req.source_language
    /\ result.target_language = req.target_language
    /\ IF req.source_language = req.target_language
       THEN result.translated_text = req.text
       ELSE \E q \in QualityPreferences :
               result.translated_text =
                   generate(req.text, LANG_MAPPING[req.source_language],
                            LANG_MAPPING[req.target_language],
                            num_beams_for(q))

\* result is the degraded echo of req
IsDegradedEcho(req, result) ==
    /\ result.translated_text = req.text
    /\ result.source_language = req.source_language
    /\ result.target_language = req.target_language
    /\ result.quality_score = 0
    /\ result.translation_method = "error"
    /\ result.cached = FALSE

\* C4: in every batch with an item k whose backend call raises, every other
\* processed item with supported languages whose backend call does not
\* raise yields its own translation (method not "error"), whatever its
\* siblings and the cache hold.
C4_BatchIsolation ==
    last.op = "batch" =>
      \A k \in DOMAIN last.runs :
        last.runs[k].backend_raised =>
          \A i \in (DOMAIN last.runs \cap DOMAIN last.results) \ {k} :
            ( /\ Supported(last.requests[i].source_language)
              /\ Supported(last.requests[i].target_language)
              /\ ~last.runs[i].backend_raised )
            => IsOwnTranslation(last.requests[i], last.results[i])

\* C5: a batch that runs returns exactly min(len(requests), max_parallel)
\* results; result i has the codes of request i and is its translation or
\* its degraded echo, whichever items fail; no item beyond the cap is run.
C5_BatchCountAndOrder ==
    (last.op = "batch" /\ last.ready) =>
      LET n == Min(Len(last.requests), last.max_parallel)
      IN  /\ Len(last.runs) <= n
          /\ Len(last.results) = Len(last.runs)
          /\ last.pc = "done" => Len(last.results) = n
          /\ \A i \in DOMAIN last.results :
               \/ IsOwnTranslation(last.requests[i], last.results[i])
               \/ IsDegradedEcho(last.requests[i], last.results[i])

\* a returned batch longer than its cap, its kept item translated
C5_Witness ==
    /\ last.op = "batch" /\ last.ready /\ last.pc = "done"
    /\ Len(last.requests) > last.max_parallel
    /\ Len(last.results) = last.max_parallel
    /\ \E i \in DOMAIN last.results :
          last.results[i].translation_method = "mbart"

\* C6: every batch item whose translate call fails, for whatever reason,
\* yields a result with its own input text, quality_score 0.0, method
\* "error" and cached = false.
C6_FailedItemEchoesOwnText ==
    last.op = "batch" =>
      \A i \in DOMAIN last.runs :
        last.runs[i].kind # "ok" =>
          /\ i \in DOMAIN last.results
          /\ last.results[i].translated_text = last.requests[i].text
          /\ last.results[i].quality_score = 0
          /\ last.results[i].translation_method = "error"
          /\ last.results[i].cached = FALSE

\* a batch with two failed items of different texts, one failed in the
\* backend and one not
C6_Witness ==
    /\ last.op = "batch" /\ last.pc = "done"
    /\ \E i, j \in DOMAIN last.runs :
          /\ last.runs[i].kind # "ok" /\ last.runs[i].backend_raised
          /\ last.runs[j].kind # "ok" /\ ~last.runs[j].backend_raised
          /\ last.requests[i].text # last.requests[j].text

\* C7 as stated: in every service state, also before the model is loaded,
\* POST /translate/batch returns an array of results, never an error.
C7_BatchNeverFails ==
    (last.op = "batch" /\ last.pc = "done") => last.outcome.kind = "ok"

\* C7, amended: once the model is loaded, POST /translate/batch never fails
\* as a whole: every item it runs leaves a result and the handler returns
\* the array; before the model is loaded it answers 503 with no result.
C7_ReadyBatchNeverFails ==
    last.op = "batch" =>
      IF last.ready
      THEN /\ last.outcome.kind = "ok"
           /\ Len(last.results) = Len(last.runs)
           /\ last.pc = "done" =>
                Len(last.results) =
                    Min(Len(last.requests), last.max_parallel)
      ELSE /\ last.pc = "done"
           /\ last.outcome.kind = "HTTPException"
           /\ last.outcome.status = 503
           /\ last.results = <<>>

\* a returned batch all of whose items failed
C7_Witness ==
    /\ last.op = "batch" /\ last.ready /\ last.pc = "done"
    /\ Len(last.runs) = 2
    /\ \A i \in DOMAIN last.runs : last.runs[i].kind # "ok"

\* ------------------------------------------------------------------ paths
\* C8: a translate request makes at most one cache read, one cache write and
\* one backend call; a cache write happens only after a backend call that
\* returned, on a request that was neither a hit nor a passthrough; a
\* passthrough or cache-hit request makes no backend call.
C8_AtMostOnePath ==
    /\ TranslateCalled =>
         /\ last.reads <= 1 /\ last.writes <= 1 /\ last.calls <= 1
         /\ last.writes = 1 =>
              /\ last.calls = 1 /\ ~last.backend_raised /\ ~last.hit
              /\ last.request.source_language
                   # last.request.target_language
         /\ last.hit => last.calls = 0
         /\ last.request.source_language = last.request.target_language
              => last.calls = 0 /\ last.reads = 0
    /\ last.op = "batch" =>
         \A i \in DOMAIN last.runs :
            /\ last.runs[i].calls <= 1
            /\ last.runs[i].hit => last.runs[i].calls = 0
            /\ last.requests[i].source_language
                 = last.requests[i].target_language
                 => last.runs[i].calls = 0

\* a request whose lookup returned a stored entry
C8_Witness ==
    /\ TranslateCalled
    /\ last.hit
    /\ last.reads = 1
    /\ last.entry_before # Absent

\* ----------------------------------------------------------- cache errors
\* C9: when the store is not connected or a get / setex call raises,
\* _get_from_cache returns None and _save_to_cache returns normally leaving
\* the store as it is, and a translate request with use_cache = true then
\* goes to the backend and, when the backend returns, gets the freshly
\* inferred result, not an error.
C9_CacheErrorsAreSwallowed ==
    /\ \A k \in Keys, e \in Envs :
         (~redis_client \/ e.get_fails) =>
            /\ ~Truthy(_get_from_cache(Self, k, e).value)
            /\ _get_from_cache(Self, k, e).escapes = ""
    /\ \A k \in Keys, e \in Envs :
         (~redis_client \/ e.setex_fails) =>
            /\ _save_to_cache(Self, k, <<>>, DefaultTtl, e).escapes = ""
            /\ _save_to_cache(Self, k, <<>>, DefaultTtl, e).store = store
    /\ ( /\ TranslateCalled
         /\ last.request.use_cache
         /\ Supported(last.request.source_language)
         /\ Supported(last.request.target_language)
         /\ last.request.source_language # last.request.target_language
         /\ ~redis_client \/ last.get_raised \/ last.setex_raised )
       => /\ last.calls = 1
          /\ ~last.backend_raised =>
               /\ last.outcome.kind = "ok"
               /\ last.outcome.response.cached = FALSE
               /\ last.outcome.response.translated_text =
                    generate(last.request.text,
                             LANG_MAPPING[last.request.source_language],
                             LANG_MAPPING[last.request.target_language],
                             num_beams_for(last.request.quality_preference))

\* a request served although both its get and its setex raised
C9_Witness ==
    /\ TranslateCalled
    /\ last.request.use_cache
    /\ last.get_raised
    /\ last.setex_raised
    /\ last.outcome.kind = "ok"

\* C10: when the backend raises during translate, the request fails with
\* status 500 and a detail carrying the backend's message, and the store is
\* left as it was: nothing is written for the request's key.
C10_BackendFailureCachesNothing ==
    (TranslateCalled /\ last.backend_raised) =>
       /\ last.outcome.kind = "HTTPException"
       /\ last.outcome.status = 500
       /\ last.outcome.detail = <<"Translation failed: ", last.backend_error>>
       /\ last.backend_error \in Messages
       /\ last.writes = 0
       /\ ~last.store_changed
       /\ store[_get_cache_key(last.request)] = last.entry_before
            \/ store[_get_cache_key(last.request)] = Absent

\* a request with use_cache = true whose lookup missed on a connected store
\* and whose backend call raised
C10_Witness ==
    /\ TranslateCalled
    /\ last.backend_raised
    /\ last.request.use_cache
    /\ last.reads = 1 /\ ~last.get_raised
    /\ last.outcome.status = 500

\* ------------------------------------------------------- cache population
\* the request in `last` has supported, distinct languages
OnInferencePath ==
    /\ Supported(last.request.source_language)
    /\ Supported(last.request.target_language)
    /\ last.request.source_language # last.request.target_language

\* C11: on a successful inference with use_cache = true and a store that
\* takes the write, translate makes one write, under the request's key and
\* no other, with a time-to-live of 2592000 seconds; the stored copy has
\* cached = true and otherwise equals the returned result field for field,
\* and the returned result has cached = false.
C11_InferenceStoresFlaggedCopy ==
    ( /\ TranslateCalled
      /\ last.request.use_cache
      /\ last.calls = 1
      /\ last.outcome.kind = "ok"
      /\ redis_client
      /\ ~last.setex_raised )
    => /\ last.writes = 1
       /\ last.changed_keys \subseteq { _get_cache_key(last.request) }
       /\ last.entry_after.ttl = 2592000
       /\ LET stored == literal_eval(last.entry_after.value)
              returned == last.outcome.response
          IN  /\ DOMAIN stored = DOMAIN returned
              /\ stored.cached = TRUE
              /\ returned.cached = FALSE
              /\ \A n \in DOMAIN returned \ {"cached"} :
                    stored[n] = returned[n]

\* a successful inference on a cold key that left its entry in the store
C11_Witness ==
    /\ TranslateCalled
    /\ last.request.use_cache
    /\ last.outcome.kind = "ok"
    /\ last.calls = 1
    /\ last.entry_before = Absent
    /\ last.changed_keys = { _get_cache_key(last.request) }
    /\ store[_get_cache_key(last.request)] = last.entry_after

\* -------------------------------------------------------------- cache keys
\* Key derivation on its own: requests whose text and domain are free text
\* (they may hold the separator), derived one after the other in any service
\* state; `prev` holds the derivation before the one in `last`.
KeyTexts == { <<"a">>, <<"a",":","e","n">> }
KeyDomains == { <<"d">>, <<"f","r",":","d">> }
KeyLangPairs ==
    { << <<"e","n">>, <<"e","s">> >>, << <<"e","s">>, <<"f","r">> >> }

KeyRequests ==
    { [text |-> t, source_language |-> p[1], target_language |-> p[2],
       domain |-> d, quality_preference |-> q, use_cache |-> c] :
         t \in KeyTexts, p \in KeyLangPairs, d \in KeyDomains,
         q \in QualityPreferences, c \in BOOLEAN }

derive_key(req) ==
    /\ last' = [op |-> "key", request |-> req, key |-> _get_cache_key(req)]
    /\ prev' = IF last.op = "key" THEN last ELSE [op |-> "none"]
    /\ UNCHANGED <<started, model, tokenizer_src_lang, adapters_loaded,
                   redis_client, store>>

KeyNext ==
    \/ \E m \in BOOLEAN, a \in {"exists", "absent", "raises"},
          r \in BOOLEAN : initialize(m, a, r)
    \/ \E req \in KeyRequests : derive_key(req)

KeySpec == Init /\ [][KeyNext]_vars

\* two derivations in a row
TwoKeys == last.op = "key" /\ prev.op = "key"

\* the two requests agree on text, source, target and domain
SameTuple(a, b) ==
    /\ a.text = b.text
    /\ a.source_language = b.source_language
    /\ a.target_language = b.target_language
    /\ a.domain = b.domain

\* C12: two requests that agree on (text, source, target, domain) get the
\* same cache key, whatever their quality_preference and use_cache, the
\* order they come in and the service state.
C12_KeyIgnoresQualityAndCacheFlag ==
    (TwoKeys /\ SameTuple(prev.request, last.request))
       => prev.key = last.key

\* two requests with the same tuple and different quality_preference and
\* use_cache, derived on a started service
C12_Witness ==
    /\ TwoKeys
    /\ started
    /\ SameTuple(prev.request, last.request)
    /\ prev.request.quality_preference # last.request.quality_preference
    /\ prev.request.use_cache # last.request.use_cache

\* C14: two requests that differ in at least one of (text, source, target,
\* domain) get different cache keys.
C14_DistinctTuplesDistinctKeys ==
    (TwoKeys /\ ~SameTuple(prev.request, last.request))
       => prev.key # last.key

\* --------------------------------------------------------------- cache hit
\* C13: on a cache hit (use_cache = true, an unexpired entry under the
\* request's key, read without error) translate returns the stored result
\* with cached = true and every other field as stored, whatever the
\* request's quality_preference.
C13_CacheHitReturnsStoredResult ==
    (TranslateCalled /\ last.hit) =>
       /\ last.outcome.kind = "ok"
       /\ last.outcome.response.cached = TRUE
       /\ LET stored == literal_eval(last.entry_before.value)
          IN  \A n \in DOMAIN stored \ {"cached"} :
                 last.outcome.response[n] = stored[n]

C16_TranslateChangesOnlyTheCache ==
    TranslateCalled => tokenizer_src_lang = last.src_lang_before

\* C16 (amended): a translate request leaves the started flag, the model,
\* the adapter flag and the store connection as they are; besides entries of
\* the cache it changes only the tokenizer's source-language setting, which
\* every request that reaches the try block sets to the model code of its
\* own source language, and no other request touches.
C16_TranslateSetsOnlySrcLang ==
    [][last'.op = "translate" =>
         /\ UNCHANGED <<started, model, adapters_loaded, redis_client>>
         /\ IF last'.path = "inference"
            THEN tokenizer_src_lang' =
                    LANG_MAPPING[last'.request.source_language]
            ELSE tokenizer_src_lang' = tokenizer_src_lang]_vars

\* a request that went through the try block and left the tokenizer with
\* another source language than it found
C16_Witness ==
    /\ TranslateCalled
    /\ last.path = "inference"
    /\ tokenizer_src_lang # last.src_lang_before
    /\ tokenizer_src_lang = LANG_MAPPING[last.request.source_language]

\* ------------------------------------------------------- use_cache = false
\* C18: a translate request with use_cache = false makes no read and no
\* write of the store and leaves every entry as it was; with supported,
\* distinct languages it calls the backend once, also when an unexpired
\* entry is stored under its key.
C18_NoCacheRequestBypassesStore ==
    (TranslateCalled /\ ~last.request.use_cache) =>
       /\ last.reads = 0
       /\ last.writes = 0
       /\ ~last.hit
       /\ ~last.store_changed
       /\ last.changed_keys = {}
       /\ last.entry_after = last.entry_before
       /\ OnInferencePath => last.calls = 1 /\ last.path = "inference"

\* a request with use_cache = false and supported, distinct languages, made
\* on a connected store that holds an entry under its key
C18_Witness ==
    /\ TranslateCalled
    /\ ~last.request.use_cache
    /\ OnInferencePath
    /\ redis_client
    /\ last.entry_before # Absent
    /\ last.outcome.kind = "ok"

\* ----------------------------------------------------------- search breadth
\* translate called with every quality preference, one outside the table
\* included, with and without the cache, over any store contents
AnyQualityPreference == {"fast", "balanced", "accurate", "best"}

QualityRequests ==
    { [text |-> t, source_language |-> <<"e","s">>,
       target_language |-> <<"e","n">>, domain |-> d,
       quality_preference |-> q, use_cache |-> c] :
         t \in Texts, d \in Domains, q \in AnyQualityPreference,
         c \in BOOLEAN }

QualityNext ==
    \/ \E m \in BOOLEAN, a \in {"exists", "absent", "raises"},
          r \in BOOLEAN : initialize(m, a, r)
    \/ \E request \in QualityRequests :
          \E env \in Faults(request) : translate_text(request, env)
    \/ \E k \in Keys : Expire(k)

QualitySpec == Init /\ [][QualityNext]_vars

\* C17: a translate call that reaches the backend calls it with num_beams 2
\* for "fast", 4 for "balanced", 8 for "accurate" and 4 for any other
\* preference, whatever the store holds and whatever came before, and an
\* unknown preference fails no request.
C17_BeamsFollowQualityPreference ==
    (TranslateCalled /\ last.calls = 1) =>
       /\ last.num_beams =
            IF last.request.quality_preference = "fast" THEN 2
            ELSE IF last.request.quality_preference = "accurate" THEN 8
            ELSE 4
       /\ (last.request.quality_preference = "best" /\ ~last.backend_raised)
             => last.outcome.kind = "ok"

\* a request with a preference outside the table, translated with breadth 4
\* over an entry that another preference wrote
C17_Witness ==
    /\ TranslateCalled
    /\ last.calls = 1
    /\ last.request.quality_preference = "best"
    /\ last.outcome.kind = "ok"
    /\ last.num_beams = 4
    /\ last.entry_before # Absent
    /\ literal_eval(last.entry_before.value).translated_text
          # last.outcome.response.translated_text

\* ------------------------------------------------------ start-up failures
\* C19: when the store connection fails at start-up, initialize completes
\* without raising, with the model loaded and no store client; afterwards a
\* translate request makes no read and no write, never hits, and a request
\* with supported, distinct languages goes to the backend once and returns
\* its fresh result: a request fails only by rejection or by the backend.
C19_StoreFailureDisablesCachingOnly ==
    /\ (last.op = "initialize" /\ last.model_loads /\ ~last.redis_pings)
          => /\ ~last.raised
             /\ started /\ model
             /\ ~redis_client
    /\ (started /\ model /\ ~redis_client)
          => \A k \in Keys : store[k] = Absent
    /\ (TranslateCalled /\ ~redis_client) =>
          /\ last.reads = 0 /\ last.writes = 0
          /\ ~last.hit
          /\ ~last.get_raised /\ ~last.setex_raised
          /\ ~last.store_changed
          /\ \/ last.outcome.kind = "ok"
             \/ last.outcome.status = 400
             \/ last.outcome.status = 500 /\ last.backend_raised
          /\ OnInferencePath =>
                /\ last.path = "inference"
                /\ last.calls = 1
                /\ ~last.backend_raised =>
                      /\ last.outcome.kind = "ok"
                      /\ last.outcome.response.cached = FALSE
                      /\ last.outcome.response.translated_text =
                           generate(
                             last.request.text,
                             LANG_MAPPING[last.request.source_language],
                             LANG_MAPPING[last.request.target_language],
                             num_beams_for(last.request.quality_preference))
    /\ (last.op = "batch" /\ last.ready /\ ~redis_client) =>
          \A i \in 1..Len(last.runs) :
             /\ ~last.runs[i].hit
             /\ last.runs[i].kind = "ok" \/ last.runs[i].status = 400
                   \/ last.runs[i].backend_raised

\* a request with use_cache = true and supported, distinct languages served
\* by inference on a service whose store connection failed at start-up
C19_Witness ==
    /\ TranslateCalled
    /\ started /\ model /\ ~redis_client
    /\ last.request.use_cache
    /\ OnInferencePath
    /\ last.outcome.kind = "ok"
    /\ last.calls = 1

\* ---------------------------------------------------------------- adapters
\* C20: adapters_loaded is false in every state, whether the adapter
\* directory exists, is absent or loading raises; every result of the try
\* block has quality_score 0.75 and method "mbart", and no result, of a
\* single request or of a batch item, has 0.85 or "adapter_fusion".
C20_AdaptersNeverLoaded ==
    /\ adapters_loaded = FALSE
    /\ (TranslateCalled /\ last.outcome.kind = "ok") =>
          /\ last.outcome.response.quality_score # 85
          /\ last.outcome.response.translation_method # "adapter_fusion"
          /\ last.path = "inference" =>
                /\ last.outcome.response.quality_score = 75
                /\ last.outcome.response.translation_method = "mbart"
    /\ last.op = "batch" =>
          \A i \in 1..Len(last.results) :
             /\ last.results[i].quality_score # 85
             /\ last.results[i].translation_method # "adapter_fusion"
             /\ (last.runs[i].kind = "ok" /\ last.runs[i].calls = 1) =>
                   /\ last.results[i].quality_score = 75
                   /\ last.results[i].translation_method = "mbart"

\* start-up has found the adapter directory, loaded the model and left the
\* flag false
C20_Witness ==
    /\ last.op = "initialize"
    /\ last.adapter_dir = "exists"
    /\ last.model_loads
    /\ model
    /\ ~adapters_loaded

====
